---- MODULE Spec2Model ----
(***************************************************************************)
(* The page-acquisition pipeline of src/index.ts: fetchPage (one page,     *)
(* bounded retry), scrapeAllPages (batches, one PQueue per batch, adaptive *)
(* concurrency), the pages/ checkpoint directory, and the /fetch-page,     *)
(* /status and /combine-pages routes that read or write it.                *)
(*                                                                         *)
(* Node runs every callback to its next await without interruption, so an  *)
(* action is the code between two awaits of one task or handler.           *)
(***************************************************************************)
EXTENDS Integers, Sequences, FiniteSets, TLC

(***************************************************************************)
(* Bounds.  The tuning numbers of index.ts are far too large to enumerate  *)
(* (50 pages a batch, 12 to 20 concurrent requests, more than 10 failed    *)
(* pages before the concurrency is reduced, 7022 pages in the dataset), so *)
(* the model runs the same code with small values of them.                 *)
(***************************************************************************)
\* TOTAL_PAGES: index.ts:14 sets 7022
TOTAL_PAGES == 3
\* CONCURRENT_REQUESTS: index.ts:19 computes 12..20 from the CPU count
CONCURRENT_REQUESTS == 3
\* BATCH_SIZE: index.ts:21 sets 50
BATCH_SIZE == 4
\* the failure count the adaptation at index.ts:192 compares with: 10 there
FailureThreshold == 1
\* requests name pages 1..MaxPage
MaxPage == 5
\* requests the server receives in a run of interleaved operations
MaxRequests == 3
\* the requests of such a run name pages 1..OpsPages
OpsPages == 2
\* requests for pages 1..MaxFaultyPage may fail (network, HTTP status, file
\* system); the other pages are always served and stored
MaxFaultyPage == 1
\* the rows of the documents that exercise the extractor have up to MaxCells cells
MaxCells == 10
\* of two range scrapes running at once, the second names one page of 1..TwoPages
TwoPages == 1

Max(a, b) == IF a >= b THEN a ELSE b
Min(a, b) == IF a <= b THEN a ELSE b

(***************************************************************************)
(* Text.  A string is a sequence of one-character strings.                 *)
(***************************************************************************)
DigitChars == <<"0", "1", "2", "3", "4", "5", "6", "7", "8", "9">>
Digits == {DigitChars[i] : i \in 1..10}

RECURSIVE NatToString(_)
NatToString(n) ==
    IF n < 10 THEN <<DigitChars[n + 1]>>
    ELSE NatToString(n \div 10) \o <<DigitChars[(n % 10) + 1]>>

\* Number.prototype.toString()
toString(n) == IF n < 0 THEN <<"-">> \o NatToString(-n) ELSE NatToString(n)

RECURSIVE PadStart(_, _, _)
\* String.prototype.padStart(len, fill) with a one-character fill
PadStart(s, len, fill) ==
    IF Len(s) >= len THEN s ELSE PadStart(<<fill>> \o s, len, fill)

StartsWith(s, prefix) ==
    /\ Len(s) >= Len(prefix)
    /\ SubSeq(s, 1, Len(prefix)) = prefix

EndsWith(s, suffix) ==
    /\ Len(s) >= Len(suffix)
    /\ SubSeq(s, Len(s) - Len(suffix) + 1, Len(s)) = suffix

\* white space that trim() removes
WhiteSpace == {" ", "\t", "\n", "\r"}

RECURSIVE TrimStart(_)
TrimStart(s) ==
    IF s # <<>> /\ Head(s) \in WhiteSpace THEN TrimStart(Tail(s)) ELSE s

RECURSIVE TrimEnd(_)
TrimEnd(s) ==
    IF s # <<>> /\ s[Len(s)] \in WhiteSpace
    THEN TrimEnd(SubSeq(s, 1, Len(s) - 1)) ELSE s

\* String.prototype.trim()
Trim(s) == TrimEnd(TrimStart(s))

\* /^\d+$/.test(s)
IsNumeric(s) == s # <<>> /\ \A i \in 1..Len(s) : s[i] \in Digits

PagePrefix == <<"p", "a", "g", "e", "-">>
TxtSuffix == <<".", "t", "x", "t">>

\* a file name that does not depend on the page number
FileNameFixed(pageNo) == PagePrefix \o <<"0", "0", "0", "1">> \o TxtSuffix
\* `page-${pageNo.toString().padStart(4, '0')}.txt`
FileName(pageNo) == PagePrefix \o PadStart(toString(pageNo), 4, "0") \o TxtSuffix

\* file => file.startsWith('page-') && file.endsWith('.txt')
IsPageFile(file) == StartsWith(file, PagePrefix) /\ EndsWith(file, TxtSuffix)

(***************************************************************************)
(* Markup.  A document is the sequence of its table rows, a row the        *)
(* sequence of its td cells, a cell its text and the href of its link.     *)
(***************************************************************************)
Cell(text, href) == [text |-> text, href |-> href]
SiteOrigin == "https://www.jhansipropertytax.com/"

\* the record pushed for a row that passed both tests (index.ts:87-109)
RecordOf(row) ==
    LET viewLink == IF Len(row) >= 9 THEN row[9].href ELSE <<>>
    IN  [slNo |-> Trim(row[1].text),
         pid |-> Trim(row[2].text),
         ward |-> Trim(row[3].text),
         mohalla |-> Trim(row[4].text),
         chkNo |-> Trim(row[5].text),
         houseNo |-> Trim(row[6].text),
         ownerName |-> Trim(row[7].text),
         mobile |-> Trim(row[8].text),
         viewDetailsLink |-> IF viewLink # <<>> THEN <<SiteOrigin>> \o viewLink ELSE <<>>]

\* cells.length >= 8 and the trimmed first cell is numeric
RowQualifies(row) == Len(row) >= 8 /\ IsNumeric(Trim(row[1].text))

RECURSIVE parsePropertyData(_)
parsePropertyData(html) ==
    IF html = <<>> THEN <<>>
    ELSE IF RowQualifies(Head(html))
         THEN <<RecordOf(Head(html))>> \o parsePropertyData(Tail(html))
         ELSE parsePropertyData(Tail(html))

\* What the remote listing may answer for a page: a table with only its
\* header row (th cells, no td), or the header and one data row of 9 cells
\* whose property id carries the page number.
HeaderRow == <<>>
DataRow(p) ==
    <<Cell(<<" ", "1", " ">>, <<>>), Cell(toString(p), <<>>), Cell(<<"W">>, <<>>),
      Cell(<<"M">>, <<>>), Cell(<<"4">>, <<>>), Cell(<<"1">>, <<>>),
      Cell(<<"X">>, <<>>), Cell(<<"*">>, <<>>), Cell(<<"V">>, <<"d">>)>>
DocEmpty == <<HeaderRow>>
DocRows(p) == <<HeaderRow, DataRow(p)>>
RemoteDocs(p) == {DocEmpty, DocRows(p)}

\* What one axios.get can end in: a response with a status (and, for 200,
\* a body), or no response at all.
Responses(p) ==
    {[kind |-> "response", status |-> 200, data |-> d] : d \in RemoteDocs(p)}
      \cup {[kind |-> "response", status |-> s, data |-> <<>>] : s \in {204, 404}}
      \cup {[kind |-> k, status |-> 0, data |-> <<>>] : k \in {"timeout", "transport"}}

\* axios rejects unless validateStatus(status) holds (index.ts:131)
validateStatus(status) == status < 400

\* a fetchPage without the status test of index.ts:139-141
FetchSucceedsBelow400(resp) == resp.kind = "response" /\ validateStatus(resp.status)

\* the attempt reaches parsePropertyData (index.ts:137-143)
FetchSucceeds(resp) ==
    /\ resp.kind = "response"
    /\ validateStatus(resp.status)
    /\ ~(resp.status # 200)

(***************************************************************************)
(* State.                                                                  *)
(***************************************************************************)
\* the range-scrape requests that may be in progress at once
Runs == {"A", "B"}
\* the /fetch-page request and the /combine-pages request
FP == "F"
CB == "C"
Owners == Runs \cup {FP}
Requests == Owners \cup {CB}

VARIABLES
    dirExists,          \* the pages/ directory exists
    files,              \* pages/: file name -> content
    fetched,            \* page numbers fetchPage has stored (reached index.ts:154 for)
    artifacts,          \* number of JSON artifacts written to the working directory
    pc,                 \* per run: where its handler and scrapeAllPages stand
    startPage, endPage, \* per run: arguments of scrapeAllPages
    batchStart,         \* per run: the loop variable of index.ts:187
    currentConcurrency, \* per run: index.ts:183
    failureCount,       \* per run: index.ts:184
    completedPages,     \* per run: index.ts:180
    allProperties,      \* per run: index.ts:179
    batchQueue,         \* per run: the PQueue of the batch being processed
    tasks,              \* per owner: page -> the fetchPage task of that page
    dispatched,         \* per run: the page numbers handed to batchQueue.add, in order
    settled,            \* per run: the page numbers whose task has resolved
    resp,               \* per request: the response sent, or NoResponse
    requests,           \* requests received so far
    statusResp,         \* the last answer of GET /status, and the request it answers
    cpc,                \* where the /combine-pages handler stands
    cfiles,             \* /combine-pages: the page files still to read
    cacc                \* /combine-pages: its allProperties

storeVars == <<dirExists, files, fetched>>
argVars == <<startPage, endPage>>
loopVars == <<batchStart, currentConcurrency, allProperties, dispatched>>
countVars == <<failureCount, completedPages, settled>>
combineVars == <<cpc, cfiles, cacc>>

vars == <<storeVars, artifacts, pc, argVars, loopVars, countVars, batchQueue, tasks,
          resp, requests, statusResp, combineVars>>

NoResponse == [sent |-> FALSE]
NoQueue == [concurrency |-> 0, pending |-> 0, waiting |-> <<>>]
NoTasks == <<>>

\* a page task: the async function of index.ts:211-235 and the fetchPage
\* call chain it awaits
NewTask(st) ==
    [st |-> st,             \* queued, delay, fetching, mkdir, writing, backoff, settled
     retryCount |-> 0,      \* the retryCount argument of the fetchPage call in progress
     attempts |-> 0,        \* axios.get calls issued by this task so far
     data |-> <<>>,         \* response.data of the attempt in progress
     properties |-> <<>>,   \* what the task resolved or will resolve with
     order |-> 0,           \* completedPages as this task's increment left it (line 221)
     error |-> "none",      \* what the catch block caught, while its retry is pending
     timer |-> 0,           \* backoffDelay of the pending retry, in ms (line 162-164)
     outcome |-> "none"]    \* how fetchPage returned: success (line 154), exhausted (line 169)

InFlightStates == {"delay", "fetching", "mkdir", "writing", "backoff"}
InFlight(o) == {p \in DOMAIN tasks[o] : tasks[o][p].st \in InFlightStates}

Init ==
    /\ dirExists = FALSE
    /\ files = <<>>
    /\ fetched = {}
    /\ artifacts = 0
    /\ pc = [r \in Runs |-> "Idle"]
    /\ startPage = [r \in Runs |-> 0]
    /\ endPage = [r \in Runs |-> 0]
    /\ batchStart = [r \in Runs |-> 0]
    /\ currentConcurrency = [r \in Runs |-> 0]
    /\ failureCount = [r \in Runs |-> 0]
    /\ completedPages = [r \in Runs |-> 0]
    /\ allProperties = [r \in Runs |-> <<>>]
    /\ batchQueue = [r \in Runs |-> NoQueue]
    /\ tasks = [o \in Owners |-> NoTasks]
    /\ dispatched = [r \in Runs |-> <<>>]
    /\ settled = [r \in Runs |-> {}]
    /\ resp = [o \in Requests |-> NoResponse]
    /\ requests = 0
    /\ statusResp = [answers |-> 0, body |-> NoResponse]
    /\ cpc = "Idle"
    /\ cfiles = [pageFiles |-> {}, left |-> {}]
    /\ cacc = <<>>

(***************************************************************************)
(* fetchPage (index.ts:118-171) and the task body around it (211-235).     *)
(***************************************************************************)
\* PQueue: a finished job starts the first waiting one, if any
StartNext(q, ts) ==
    IF q.waiting # <<>>
    THEN [queue |-> [q EXCEPT !.waiting = Tail(@)],
          tasks |-> [ts EXCEPT ![Head(q.waiting)].st = "delay"]]
    ELSE [queue |-> [q EXCEPT !.pending = @ - 1], tasks |-> ts]

\* index.ts:217-219
CountsAsFailure(properties) == Len(properties) = 0

\* the task as it is once its promise resolved with `properties`
SettledTask(t, properties, outcome) ==
    [NewTask("settled") EXCEPT !.data = IF outcome = "success" THEN t.data ELSE <<>>,
                               !.properties = properties,
                               !.outcome = outcome]

\* a task body that counts a page as completed only when it is not a failure
ReturnCountsSuccessOnly(o, p, properties, outcome) ==
    IF o \in Runs
    THEN LET done == [tasks[o] EXCEPT ![p] =
                          [SettledTask(@, properties, outcome)
                               EXCEPT !.order = completedPages[o] + 1]]
             next == StartNext(batchQueue[o], done)
         IN  /\ failureCount' = [failureCount EXCEPT ![o] =
                                    IF CountsAsFailure(properties) THEN @ + 1 ELSE @]
             /\ completedPages' = [completedPages EXCEPT ![o] =
                                      IF CountsAsFailure(properties) THEN @ ELSE @ + 1]
             /\ settled' = [settled EXCEPT ![o] = @ \cup {p}]
             /\ batchQueue' = [batchQueue EXCEPT ![o] = next.queue]
             /\ tasks' = [tasks EXCEPT ![o] = next.tasks]
             /\ UNCHANGED resp
    ELSE /\ resp' = [resp EXCEPT ![o] = [sent |-> TRUE, success |-> TRUE, pageNo |-> p,
                                         properties |-> properties,
                                         count |-> Len(properties)]]
         /\ tasks' = [tasks EXCEPT ![o][p] = SettledTask(@, properties, outcome)]
         /\ UNCHANGED <<countVars, batchQueue>>

\* a task body whose counters are module-level variables, shared by every
\* scrapeAllPages call in the process
ReturnSharedCounters(o, p, properties, outcome) ==
    IF o \in Runs
    THEN LET done == [tasks[o] EXCEPT ![p] =
                          [SettledTask(@, properties, outcome)
                               EXCEPT !.order = completedPages[o] + 1]]
             next == StartNext(batchQueue[o], done)
         IN  /\ failureCount' = [r \in Runs |->
                                    IF CountsAsFailure(properties)
                                    THEN failureCount[r] + 1 ELSE failureCount[r]]
             /\ completedPages' = [r \in Runs |-> completedPages[r] + 1]
             /\ settled' = [settled EXCEPT ![o] = @ \cup {p}]
             /\ batchQueue' = [batchQueue EXCEPT ![o] = next.queue]
             /\ tasks' = [tasks EXCEPT ![o] = next.tasks]
             /\ UNCHANGED resp
    ELSE /\ resp' = [resp EXCEPT ![o] = [sent |-> TRUE, success |-> TRUE, pageNo |-> p,
                                         properties |-> properties,
                                         count |-> Len(properties)]]
         /\ tasks' = [tasks EXCEPT ![o][p] = SettledTask(@, properties, outcome)]
         /\ UNCHANGED <<countVars, batchQueue>>

\* fetchPage returned `properties`: the rest of the task body (index.ts:217-234)
\* for a page of a range scrape, the response of /fetch-page (376-381) otherwise
Return(o, p, properties, outcome) ==
    IF o \in Runs
    THEN LET done == [tasks[o] EXCEPT ![p] =
                          [SettledTask(@, properties, outcome)
                               EXCEPT !.order = completedPages[o] + 1]]
             next == StartNext(batchQueue[o], done)
         IN  /\ failureCount' = [failureCount EXCEPT ![o] =
                                    IF CountsAsFailure(properties) THEN @ + 1 ELSE @]
             /\ completedPages' = [completedPages EXCEPT ![o] = @ + 1]
             /\ settled' = [settled EXCEPT ![o] = @ \cup {p}]
             /\ batchQueue' = [batchQueue EXCEPT ![o] = next.queue]
             /\ tasks' = [tasks EXCEPT ![o] = next.tasks]
             /\ UNCHANGED resp
    ELSE /\ resp' = [resp EXCEPT ![o] = [sent |-> TRUE, success |-> TRUE, pageNo |-> p,
                                         properties |-> properties,
                                         count |-> Len(properties)]]
         /\ tasks' = [tasks EXCEPT ![o][p] = SettledTask(@, properties, outcome)]
         /\ UNCHANGED <<countVars, batchQueue>>

\* a linear backoff, as the older scraper of this repository has it
backoffDelayLinear(retryCount) == Min(2000 * (retryCount + 1), 10000)
\* Math.min(2000 * Math.pow(2, retryCount), 10000), index.ts:162
backoffDelay(retryCount) == Min(2000 * (2 ^ retryCount), 10000)

\* retrying once more than index.ts:161 allows
MaxRetriesOneMore == 3 + 1
MaxRetries == 3

\* the environment lets requests and file operations for page p fail
MayFail(p) == p <= MaxFaultyPage

\* a catch block that counts every failed attempt as a failed page
CatchCountsAttempts(o, p, error) ==
    IF tasks[o][p].retryCount < MaxRetries
    THEN /\ tasks' = [tasks EXCEPT ![o][p].st = "backoff", ![o][p].data = <<>>,
                                   ![o][p].properties = <<>>, ![o][p].error = error,
                                   ![o][p].timer = backoffDelay(tasks[o][p].retryCount)]
         /\ IF o \in Runs
            THEN failureCount' = [failureCount EXCEPT ![o] = @ + 1]
            ELSE UNCHANGED failureCount
         /\ UNCHANGED <<completedPages, settled, batchQueue, resp>>
    ELSE Return(o, p, <<>>, "exhausted")

\* a catch block that rethrows once the retries are used up: the task's
\* promise rejects instead of resolving with []
CatchRethrows(o, p, error) ==
    /\ tasks' = [tasks EXCEPT ![o][p].st =
                    IF tasks[o][p].retryCount < MaxRetries THEN "backoff" ELSE "rejected",
                              ![o][p].data = <<>>, ![o][p].properties = <<>>,
                              ![o][p].error = error,
                              ![o][p].timer = IF tasks[o][p].retryCount < MaxRetries
                                              THEN backoffDelay(tasks[o][p].retryCount)
                                              ELSE 0]
    /\ UNCHANGED <<countVars, batchQueue, resp>>

\* a catch block that never retries: the first failed attempt returns []
CatchGivesUp(o, p, error) == Return(o, p, <<>>, "exhausted")

\* the catch block, index.ts:156-170
Catch(o, p, error) ==
    IF tasks[o][p].retryCount < MaxRetries
    THEN /\ tasks' = [tasks EXCEPT ![o][p].st = "backoff", ![o][p].data = <<>>,
                                   ![o][p].properties = <<>>, ![o][p].error = error,
                                   ![o][p].timer = backoffDelay(tasks[o][p].retryCount)]
         /\ UNCHANGED <<countVars, batchQueue, resp>>
    ELSE Return(o, p, <<>>, "exhausted")

\* what axios.get threw, or line 140 after it: the errorType of index.ts:157
\* up to the class of the error
ErrorType(r) ==
    IF r.kind # "response" THEN r.kind
    ELSE IF validateStatus(r.status) THEN "status" ELSE "rejected"
\* a file operation of index.ts:150-151 that rejected
FsError == "fs"

\* what a step of fetchPage that neither stores nor returns leaves alone
OnlyTasks ==
    UNCHANGED <<storeVars, artifacts, pc, argVars, loopVars, countVars, batchQueue,
                resp, requests, statusResp, combineVars>>
\* what a step of fetchPage that may return leaves alone, the store aside
ReturnFrame ==
    UNCHANGED <<artifacts, pc, argVars, loopVars, requests, statusResp, combineVars>>

\* the 50 ms timer of index.ts:213 fired: fetchPage(pageNo) issues its request
DelayDone(o, p) ==
    /\ tasks[o][p].st = "delay"
    /\ tasks' = [tasks EXCEPT ![o][p].st = "fetching", ![o][p].attempts = @ + 1]
    /\ OnlyTasks

\* axios.get settled (index.ts:137-143)
FetchResponds(o, p, r) ==
    /\ tasks[o][p].st = "fetching"
    /\ IF FetchSucceeds(r)
       THEN /\ tasks' = [tasks EXCEPT ![o][p].st = "mkdir", ![o][p].data = r.data,
                                      ![o][p].properties = parsePropertyData(r.data)]
            /\ UNCHANGED <<countVars, batchQueue, resp>>
       ELSE /\ MayFail(p)
            /\ Catch(o, p, ErrorType(r))
    /\ UNCHANGED storeVars
    /\ ReturnFrame

\* fs.mkdir(pages, {recursive: true}) resolved (index.ts:150)
MkdirDone(o, p) ==
    /\ tasks[o][p].st = "mkdir"
    /\ dirExists' = TRUE
    /\ tasks' = [tasks EXCEPT ![o][p].st = "writing"]
    /\ UNCHANGED <<files, fetched, countVars, batchQueue, resp>>
    /\ ReturnFrame

\* fs.mkdir rejected (the directory cannot be created): the catch block takes it
MkdirFails(o, p) ==
    /\ tasks[o][p].st = "mkdir"
    /\ ~dirExists
    /\ MayFail(p)
    /\ Catch(o, p, FsError)
    /\ UNCHANGED storeVars
    /\ ReturnFrame

\* a fetchPage that stores a page only when it found records in it
WriteDoneSkipsEmpty(o, p) ==
    /\ tasks[o][p].st = "writing"
    /\ IF tasks[o][p].properties = <<>>
       THEN UNCHANGED <<files, fetched>>
       ELSE /\ files' = (FileName(p) :> tasks[o][p].data) @@ files
            /\ fetched' = fetched \cup {p}
    /\ Return(o, p, tasks[o][p].properties, "success")
    /\ UNCHANGED dirExists
    /\ ReturnFrame

\* fs.writeFile(filePath, response.data) resolved, fetchPage returns (151-154)
WriteDone(o, p) ==
    /\ tasks[o][p].st = "writing"
    /\ files' = (FileName(p) :> tasks[o][p].data) @@ files
    /\ fetched' = fetched \cup {p}
    /\ Return(o, p, tasks[o][p].properties, "success")
    /\ UNCHANGED dirExists
    /\ ReturnFrame

\* a fetchPage that returns the records of a page it could not store
WriteFailsKeepsResult(o, p) ==
    /\ tasks[o][p].st = "writing"
    /\ MayFail(p)
    /\ Return(o, p, tasks[o][p].properties, "success")
    /\ UNCHANGED storeVars
    /\ ReturnFrame

\* fs.writeFile rejected: the catch block takes it
WriteFails(o, p) ==
    /\ tasks[o][p].st = "writing"
    /\ MayFail(p)
    /\ Catch(o, p, FsError)
    /\ UNCHANGED storeVars
    /\ ReturnFrame

\* the backoff timer fired: fetchPage(pageNo, retryCount + 1) (index.ts:164-165)
BackoffDone(o, p) ==
    /\ tasks[o][p].st = "backoff"
    /\ tasks' = [tasks EXCEPT ![o][p].st = "fetching", ![o][p].retryCount = @ + 1,
                              ![o][p].attempts = @ + 1, ![o][p].error = "none",
                              ![o][p].timer = 0]
    /\ OnlyTasks

TaskStep(o) ==
    \E p \in DOMAIN tasks[o] :
        \/ DelayDone(o, p)
        \/ \E r \in Responses(p) : FetchResponds(o, p, r)
        \/ MkdirDone(o, p)
        \/ MkdirFails(o, p)
        \/ WriteDone(o, p)
        \/ WriteFails(o, p)
        \/ BackoffDone(o, p)

(***************************************************************************)
(* scrapeAllPages (index.ts:174-267) and its route handlers (272-368).     *)
(***************************************************************************)
\* the reduction without its floor of 3
AdaptedNoFloor(c) == (c * 7) \div 10
\* Math.max(3, Math.floor(currentConcurrency * 0.7))
AdaptedConcurrency(c) == Max(3, (c * 7) \div 10)

\* an adaptation that already fires when the count reaches the threshold
ShouldAdaptAtThreshold(failures) == failures >= FailureThreshold
\* index.ts:192
ShouldAdapt(failures) == failures > FailureThreshold

\* a batch end that is not clamped to endPage
BatchEndUnclamped(bs, e) == bs + BATCH_SIZE - 1
\* Math.min(batchStart + BATCH_SIZE - 1, endPage)
BatchEnd(bs, e) == Min(bs + BATCH_SIZE - 1, e)

\* a queue that admits one job more than its concurrency
QueueAddOneMore(s, p) ==
    IF s.queue.pending <= s.queue.concurrency
    THEN [queue |-> [s.queue EXCEPT !.pending = @ + 1],
          tasks |-> (p :> NewTask("delay")) @@ s.tasks]
    ELSE [queue |-> [s.queue EXCEPT !.waiting = Append(@, p)],
          tasks |-> (p :> NewTask("queued")) @@ s.tasks]

\* a dispatch that skips the pages whose file is already in pages/
QueueAddSkipsStored(s, p) ==
    IF FileName(p) \in DOMAIN files THEN s
    ELSE IF s.queue.pending < s.queue.concurrency
    THEN [queue |-> [s.queue EXCEPT !.pending = @ + 1],
          tasks |-> (p :> NewTask("delay")) @@ s.tasks]
    ELSE [queue |-> [s.queue EXCEPT !.waiting = Append(@, p)],
          tasks |-> (p :> NewTask("queued")) @@ s.tasks]

\* PQueue.add: the job starts at once while fewer than `concurrency` jobs
\* are pending, and waits in the queue otherwise
QueueAdd(s, p) ==
    IF s.queue.pending < s.queue.concurrency
    THEN [queue |-> [s.queue EXCEPT !.pending = @ + 1],
          tasks |-> (p :> NewTask("delay")) @@ s.tasks]
    ELSE [queue |-> [s.queue EXCEPT !.waiting = Append(@, p)],
          tasks |-> (p :> NewTask("queued")) @@ s.tasks]

RECURSIVE AddPages(_, _, _)
\* the loop of index.ts:209-237 over pageNo = from..to
AddPages(s, from, to) ==
    IF from > to THEN s ELSE AddPages(QueueAdd(s, from), from + 1, to)

RECURSIVE PageSeq(_, _)
PageSeq(from, to) == IF from > to THEN <<>> ELSE <<from>> \o PageSeq(from + 1, to)

\* one pass of the loop body from its top to the await of index.ts:240,
\* entered with batchStart = bs <= endPage = e; `sent` are the pages
\* dispatched by the earlier passes
BeginBatch(r, bs, e, conc, failures, sent) ==
    LET adapt == ShouldAdapt(failures)
        c == IF adapt THEN AdaptedConcurrency(conc) ELSE conc
        batchEnd == BatchEnd(bs, e)
        added == AddPages([queue |-> [concurrency |-> c, pending |-> 0, waiting |-> <<>>],
                           tasks |-> NoTasks], bs, batchEnd)
    IN  /\ currentConcurrency' = [currentConcurrency EXCEPT ![r] = c]
        /\ failureCount' = [failureCount EXCEPT ![r] = IF adapt THEN 0 ELSE failures]
        /\ batchStart' = [batchStart EXCEPT ![r] = bs]
        /\ batchQueue' = [batchQueue EXCEPT ![r] = added.queue]
        /\ tasks' = [tasks EXCEPT ![r] = added.tasks]
        /\ dispatched' = [dispatched EXCEPT ![r] = sent \o PageSeq(bs, batchEnd)]
        /\ pc' = [pc EXCEPT ![r] = "Waiting"]

\* a handler calls scrapeAllPages(s, e): index.ts:174-184, then the loop
StartScrape(r, s, e) ==
    /\ pc[r] = "Idle"
    /\ requests < MaxRequests
    /\ requests' = requests + 1
    /\ resp' = [resp EXCEPT ![r] = NoResponse]
    /\ startPage' = [startPage EXCEPT ![r] = s]
    /\ endPage' = [endPage EXCEPT ![r] = e]
    /\ allProperties' = [allProperties EXCEPT ![r] = <<>>]
    /\ completedPages' = [completedPages EXCEPT ![r] = 0]
    /\ settled' = [settled EXCEPT ![r] = {}]
    /\ IF s <= e
       THEN BeginBatch(r, s, e, CONCURRENT_REQUESTS, 0, <<>>)
       ELSE /\ currentConcurrency' = [currentConcurrency EXCEPT ![r] = CONCURRENT_REQUESTS]
            /\ failureCount' = [failureCount EXCEPT ![r] = 0]
            /\ batchStart' = [batchStart EXCEPT ![r] = s]
            /\ dispatched' = [dispatched EXCEPT ![r] = <<>>]
            /\ pc' = [pc EXCEPT ![r] = "Saving"]
            /\ UNCHANGED <<batchQueue, tasks>>
    /\ UNCHANGED <<storeVars, artifacts, statusResp, combineVars>>

\* an aggregation that keeps only the result of the batch's last page
ConcatLast(ts, from, to) == IF from > to THEN <<>> ELSE ts[to].properties

RECURSIVE ByOrder(_, _)
\* the results of the tasks of `pages`, the task that resolved first first
ByOrder(ts, pages) ==
    IF pages = {} THEN <<>>
    ELSE LET p == CHOOSE x \in pages : \A q \in pages : ts[x].order <= ts[q].order
         IN  ts[p].properties \o ByOrder(ts, pages \ {p})
\* an aggregation in the order the tasks resolved in, as when each task
\* pushes its own result
ConcatByCompletion(ts, from, to) == ByOrder(ts, from..to)

RECURSIVE Concat(_, _, _)
\* batchResults.forEach(properties => allProperties.push(...properties)):
\* Promise.all keeps the order of batchTasks, that is page order
Concat(ts, from, to) ==
    IF from > to THEN <<>> ELSE ts[from].properties \o Concat(ts, from + 1, to)

\* a wait that is over as soon as every task of the batch has started
AllStarted(ts) == \A p \in DOMAIN ts : ts[p].st # "queued"
\* a wait that is over as soon as one task of the batch has resolved
AnySettled(ts) == \E p \in DOMAIN ts : ts[p].st = "settled"
\* Promise.all(batchTasks) resolves once every task of the batch has
AllSettled(ts) == \A p \in DOMAIN ts : ts[p].st = "settled"

\* Promise.all(batchTasks) resolved: index.ts:240-252 and, after the last
\* batch, the return of scrapeAllPages.  batchTasks and batchResults live to
\* the end of the loop pass, that is through the pause of line 251.
BatchDone(r) ==
    /\ pc[r] = "Waiting"
    /\ AllSettled(tasks[r])
    /\ LET batchEnd == BatchEnd(batchStart[r], endPage[r])
       IN  /\ allProperties' = [allProperties EXCEPT ![r] =
                                   @ \o Concat(tasks[r], batchStart[r], batchEnd)]
           /\ pc' = [pc EXCEPT ![r] = IF batchEnd < endPage[r] THEN "Pausing" ELSE "Saving"]
           /\ tasks' = [tasks EXCEPT ![r] = IF batchEnd < endPage[r] THEN @ ELSE NoTasks]
    /\ batchQueue' = [batchQueue EXCEPT ![r] = NoQueue]
    /\ UNCHANGED <<storeVars, artifacts, argVars, batchStart, currentConcurrency,
                   dispatched, countVars, resp, requests, statusResp, combineVars>>

\* the pause of index.ts:251 is over: batchStart += BATCH_SIZE, next pass
PauseDone(r) ==
    /\ pc[r] = "Pausing"
    /\ BeginBatch(r, batchStart[r] + BATCH_SIZE, endPage[r], currentConcurrency[r],
                  failureCount[r], dispatched[r])
    /\ UNCHANGED <<storeVars, artifacts, argVars, allProperties, completedPages,
                   settled, resp, requests, statusResp, combineVars>>

\* the handler wrote the JSON artifact and answered (index.ts:291-317, 346-358)
SaveDone(r) ==
    /\ pc[r] = "Saving"
    /\ artifacts' = artifacts + 1
    /\ pc' = [pc EXCEPT ![r] = "Done"]
    /\ resp' = [resp EXCEPT ![r] = [sent |-> TRUE, success |-> TRUE,
                                    totalProperties |-> Len(allProperties[r]),
                                    pagesProcessed |-> endPage[r] - startPage[r] + 1]]
    /\ UNCHANGED <<storeVars, argVars, loopVars, countVars, batchQueue, tasks,
                   requests, statusResp, combineVars>>

\* fs.writeFile of the artifact rejected: the handler's catch (319-326, 360-367)
SaveFails(r) ==
    /\ pc[r] = "Saving"
    /\ pc' = [pc EXCEPT ![r] = "Done"]
    /\ resp' = [resp EXCEPT ![r] = [sent |-> TRUE, success |-> FALSE]]
    /\ UNCHANGED <<storeVars, artifacts, argVars, loopVars, countVars, batchQueue,
                   tasks, requests, statusResp, combineVars>>

\* one range scrape, any range of pages 1..MaxPage
Next ==
    \/ \E s, e \in 1..MaxPage : StartScrape("A", s, e)
    \/ TaskStep("A")
    \/ BatchDone("A")
    \/ PauseDone("A")
    \/ SaveDone("A")
    \/ SaveFails("A")

Spec == Init /\ [][Next]_vars

(***************************************************************************)
(* The other routes: /fetch-page/:pageNo, /status, /combine-pages.         *)
(***************************************************************************)
\* parseInt(req.params.pageNo): a number, or NaN
PageParams ==
    {[nan |-> TRUE, value |-> 0]} \cup {[nan |-> FALSE, value |-> v] : v \in 0..OpsPages}

\* parseInt(req.params.pageNo) || 1
PageNoOf(param) == IF param.nan \/ param.value = 0 THEN 1 ELSE param.value

\* GET /fetch-page/:pageNo calls fetchPage(pageNo) (index.ts:371-374)
StartFetchPage(param) ==
    /\ InFlight(FP) = {}
    /\ requests < MaxRequests
    /\ requests' = requests + 1
    /\ resp' = [resp EXCEPT ![FP] = NoResponse]
    /\ tasks' = [tasks EXCEPT ![FP] =
                    PageNoOf(param) :> [NewTask("fetching") EXCEPT !.attempts = 1]]
    /\ UNCHANGED <<storeVars, artifacts, pc, argVars, loopVars, countVars, batchQueue,
                   statusResp, combineVars>>

FetchPageStep ==
    \E p \in DOMAIN tasks[FP] :
        \/ \E r \in Responses(p) : FetchResponds(FP, p, r)
        \/ MkdirDone(FP, p)
        \/ MkdirFails(FP, p)
        \/ WriteDone(FP, p)
        \/ WriteFails(FP, p)
        \/ BackoffDone(FP, p)

\* files.filter(file => file.startsWith('page-') && file.endsWith('.txt')).length
CountPageFiles(names) == Cardinality({f \in names : IsPageFile(f)})

\* Math.round(num / den) for num >= 0, den > 0: floor(num / den + 0.5)
RoundDiv(num, den) == (2 * num + den) \div (2 * den)

\* a percentage cut off instead of rounded
ProgressFloor(completed) == (completed * 100) \div TOTAL_PAGES
\* Math.round((completedPages / TOTAL_PAGES) * 100)
Progress(completed) == RoundDiv(completed * 100, TOTAL_PAGES)

\* the body of the answer of GET /status (index.ts:405-410)
StatusBody(completed) ==
    [sent |-> TRUE,
     totalPages |-> TOTAL_PAGES,
     completedPages |-> completed,
     progress |-> Progress(completed),
     remaining |-> TOTAL_PAGES - completed]

\* GET /status: readdir, which fails while pages/ does not exist (393-410)
Status ==
    /\ requests < MaxRequests
    /\ requests' = requests + 1
    /\ statusResp' = [answers |-> requests + 1,
                      body |-> StatusBody(IF dirExists THEN CountPageFiles(DOMAIN files)
                                          ELSE 0)]
    /\ UNCHANGED <<storeVars, artifacts, pc, argVars, loopVars, countVars, batchQueue,
                   tasks, resp, combineVars>>

combineFrame ==
    <<storeVars, pc, argVars, loopVars, countVars, batchQueue, tasks, statusResp>>

\* a combine handler that takes a missing pages/ for an empty one
CombineStartEmptyListing ==
    /\ cpc = "Idle"
    /\ requests < MaxRequests
    /\ requests' = requests + 1
    /\ cacc' = <<>>
    /\ LET pageFiles == {f \in DOMAIN files : IsPageFile(f)}
       IN  /\ cfiles' = [pageFiles |-> pageFiles, left |-> pageFiles]
           /\ cpc' = IF pageFiles = {} THEN "Saving" ELSE "Reading"
           /\ resp' = [resp EXCEPT ![CB] = NoResponse]
    /\ UNCHANGED <<combineFrame, artifacts>>

\* POST /combine-pages: readdir and filter (index.ts:423-429); without the
\* directory readdir rejects and the handler's catch answers (453-458)
CombineStart ==
    /\ cpc = "Idle"
    /\ requests < MaxRequests
    /\ requests' = requests + 1
    /\ cacc' = <<>>
    /\ IF dirExists
       THEN LET pageFiles == {f \in DOMAIN files : IsPageFile(f)}
            IN  /\ cfiles' = [pageFiles |-> pageFiles, left |-> pageFiles]
                /\ cpc' = IF pageFiles = {} THEN "Saving" ELSE "Reading"
                /\ resp' = [resp EXCEPT ![CB] = NoResponse]
       ELSE /\ cfiles' = [pageFiles |-> {}, left |-> {}]
            /\ cpc' = "Idle"
            /\ resp' = [resp EXCEPT ![CB] = [sent |-> TRUE, success |-> FALSE]]
    /\ UNCHANGED <<combineFrame, artifacts>>

\* a combine loop that removes each checkpoint file once it has read it
CombineReadRemoves(f) ==
    /\ cpc = "Reading"
    /\ f \in cfiles.left
    /\ cacc' = cacc \o parsePropertyData(files[f])
    /\ cfiles' = [cfiles EXCEPT !.left = @ \ {f}]
    /\ cpc' = IF cfiles.left = {f} THEN "Saving" ELSE "Reading"
    /\ files' = [g \in DOMAIN files \ {f} |-> files[g]]
    /\ UNCHANGED <<dirExists, fetched, pc, argVars, loopVars, countVars, batchQueue,
                   tasks, statusResp, artifacts, resp, requests>>

\* one pass of the loop of index.ts:431-436: the next file, in whatever
\* order readdir listed them, is read and parsed
CombineRead(f) ==
    /\ cpc = "Reading"
    /\ f \in cfiles.left
    /\ cacc' = cacc \o parsePropertyData(files[f])
    /\ cfiles' = [cfiles EXCEPT !.left = @ \ {f}]
    /\ cpc' = IF cfiles.left = {f} THEN "Saving" ELSE "Reading"
    /\ UNCHANGED <<combineFrame, artifacts, resp, requests>>

\* the combined artifact is written and the answer sent (index.ts:443-451)
CombineSaveDone ==
    /\ cpc = "Saving"
    /\ artifacts' = artifacts + 1
    /\ cpc' = "Idle"
    /\ resp' = [resp EXCEPT ![CB] = [sent |-> TRUE, success |-> TRUE,
                                     totalProperties |-> Len(cacc),
                                     filesProcessed |-> Cardinality(cfiles.pageFiles)]]
    /\ UNCHANGED <<combineFrame, cfiles, cacc, requests>>

\* writing the combined artifact rejected (index.ts:453-458)
CombineSaveFails ==
    /\ cpc = "Saving"
    /\ cpc' = "Idle"
    /\ resp' = [resp EXCEPT ![CB] = [sent |-> TRUE, success |-> FALSE]]
    /\ UNCHANGED <<combineFrame, artifacts, cfiles, cacc, requests>>

\* the answer of a range scrape is out and the locals of its scrapeAllPages
\* call are gone; the server takes the next one
NextRequest(r) ==
    /\ pc[r] = "Done"
    /\ requests < MaxRequests
    /\ pc' = [pc EXCEPT ![r] = "Idle"]
    /\ startPage' = [startPage EXCEPT ![r] = 0]
    /\ endPage' = [endPage EXCEPT ![r] = 0]
    /\ batchStart' = [batchStart EXCEPT ![r] = 0]
    /\ currentConcurrency' = [currentConcurrency EXCEPT ![r] = 0]
    /\ failureCount' = [failureCount EXCEPT ![r] = 0]
    /\ completedPages' = [completedPages EXCEPT ![r] = 0]
    /\ allProperties' = [allProperties EXCEPT ![r] = <<>>]
    /\ dispatched' = [dispatched EXCEPT ![r] = <<>>]
    /\ settled' = [settled EXCEPT ![r] = {}]
    /\ UNCHANGED <<storeVars, artifacts, batchQueue, tasks, resp, requests,
                   statusResp, combineVars>>

\* range scrapes and single-page fetches of pages 1..OpsPages, status and
\* combine requests, MaxRequests of them in all, interleaved at will
NextOps ==
    \/ \E s, e \in 1..OpsPages : StartScrape("A", s, e)
    \/ TaskStep("A")
    \/ BatchDone("A")
    \/ SaveDone("A")
    \/ SaveFails("A")
    \/ NextRequest("A")
    \/ \E param \in PageParams : StartFetchPage(param)
    \/ FetchPageStep
    \/ Status
    \/ CombineStart
    \/ \E f \in cfiles.left : CombineRead(f)
    \/ CombineSaveDone
    \/ CombineSaveFails

OpsSpec == Init /\ [][NextOps]_vars

\* a range scrape over pages of 1..MaxPage, which reaches past TOTAL_PAGES,
\* with status requests at any moment of it
NextStatus ==
    \/ Next
    \/ Status

StatusSpec == Init /\ [][NextStatus]_vars

\* two calls of scrapeAllPages at once: request A scrapes two batches,
\* pages 1..BATCH_SIZE+1, request B one page of 1..TwoPages
NextTwo ==
    \/ StartScrape("A", 1, BATCH_SIZE + 1)
    \/ \E p \in 1..TwoPages : StartScrape("B", p, p)
    \/ \E r \in Runs :
           \/ TaskStep(r)
           \/ BatchDone(r)
           \/ SaveDone(r)
           \/ SaveFails(r)
    \/ PauseDone("A")

TwoSpec == Init /\ [][NextTwo]_vars

(***************************************************************************)
(* The extractor on arbitrary rows: /fetch-page requests answered with     *)
(* documents whose rows vary in their number of cells and their first cell.*)
(***************************************************************************)
\* a row of n td cells whose first cell holds `first`; the ninth holds a link
Row(n, first) ==
    [i \in 1..n |-> IF i = 1 THEN Cell(first, <<>>)
                    ELSE IF i = 9 THEN Cell(<<"V">>, <<"d">>)
                    ELSE Cell(<<"x">>, <<>>)]

\* first cells: a padded number, a number, "N/A", the empty string, a mix
FirstCells == {<<" ", "1", "2", " ">>, <<"7">>, <<"N", "/", "A">>, <<>>, <<"1", "a">>}
CellCounts == {0} \cup (MaxCells - 3)..MaxCells
ParseRows == {Row(n, first) : n \in CellCounts \ {0}, first \in FirstCells} \cup {HeaderRow}

\* one-row documents, and two documents that mix rows
ParseDocs ==
    {<<row>> : row \in ParseRows}
      \cup {<<HeaderRow, Row(9, <<"7">>), Row(8, <<"7">>)>>,
            <<HeaderRow, Row(9, <<"N", "/", "A">>), Row(MaxCells, <<" ", "1", "2", " ">>)>>}
ParseResponses == {[kind |-> "response", status |-> 200, data |-> d] : d \in ParseDocs}

ParseNext ==
    \/ \E param \in PageParams : StartFetchPage(param)
    \/ \E p \in DOMAIN tasks[FP] :
           \/ \E r \in ParseResponses : FetchResponds(FP, p, r)
           \/ MkdirDone(FP, p)
           \/ WriteDone(FP, p)

ParseSpec == Init /\ [][ParseNext]_vars

\* the timers, requests and file operations of a running scrape all complete
\* (axios gives up after REQUEST_TIMEOUT), so its enabled steps are taken
RunSteps(r) ==
    TaskStep(r) \/ BatchDone(r) \/ PauseDone(r) \/ SaveDone(r) \/ SaveFails(r)
FairSpec == Spec /\ WF_vars(RunSteps("A"))

(***************************************************************************)
(* Properties of one range scrape.                                         *)
(***************************************************************************)
Range(r) == startPage[r]..endPage[r]
DispatchedSet(r) == {dispatched[r][i] : i \in 1..Len(dispatched[r])}
\* scrapeAllPages has returned to its handler
Returned(r) == pc[r] \in {"Saving", "Done"}
\* the batch a page of run r belongs to, counted from 0
BatchOf(r, p) == (p - startPage[r]) \div BATCH_SIZE
Unsettled(r) == {p \in DOMAIN tasks[r] : tasks[r][p].st # "settled"}

\* C1: no page is dispatched twice and none outside [startPage, endPage];
\* when a scrape of a range startPage <= endPage has returned, exactly
\* endPage-startPage+1 tasks were dispatched, one for each page of the range
C1_DispatchedOncePerPage ==
    \A r \in Runs :
        /\ \A i, j \in 1..Len(dispatched[r]) :
               i # j => dispatched[r][i] # dispatched[r][j]
        /\ DispatchedSet(r) \subseteq Range(r)
        /\ (Returned(r) /\ startPage[r] <= endPage[r]) =>
               /\ Len(dispatched[r]) = endPage[r] - startPage[r] + 1
               /\ DispatchedSet(r) = Range(r)

\* a scrape of two batches has returned, one of its pages having been retried
\* to exhaustion inside its single task
C1_Witness ==
    /\ pc["A"] = "Done"
    /\ endPage["A"] - startPage["A"] >= BATCH_SIZE
    /\ failureCount["A"] > 0
    /\ ~(1 \in fetched)
    /\ startPage["A"] = 1

\* C2: a task that has started (its delay included) belongs to a batch all of
\* whose predecessors' tasks have settled
C2_BatchesSequential ==
    \A r \in Runs : \A p \in DOMAIN tasks[r] :
        tasks[r][p].st # "queued" =>
            \A q \in DispatchedSet(r) :
                BatchOf(r, q) < BatchOf(r, p) => q \in settled[r]

\* a task of the second batch is in its pre-fetch delay
C2_Witness ==
    \E p \in DOMAIN tasks["A"] :
        /\ BatchOf("A", p) = 1
        /\ tasks["A"][p].st = "delay"

\* C3: the tasks of a scrape that are in flight never outnumber its current
\* concurrency
C3_InFlightBounded ==
    \A r \in Runs : Cardinality(InFlight(r)) <= currentConcurrency[r]

\* the queue is full: as many tasks in flight as the concurrency allows, with
\* another one waiting
C3_Witness ==
    /\ Cardinality(InFlight("A")) = currentConcurrency["A"]
    /\ batchQueue["A"].waiting # <<>>

C5_ScrapeReturns ==
    \A r \in {"A"} :
        (pc[r] = "Waiting") ~>
            (/\ pc[r] = "Saving"
             /\ settled[r] = Range(r)
             /\ completedPages[r] = endPage[r] - startPage[r] + 1
             /\ tasks[r] = NoTasks)

\* a scrape of two batches has returned although page 1, in its first batch,
\* failed every attempt
C5_Witness ==
    /\ pc["A"] = "Saving"
    /\ startPage["A"] = 1
    /\ endPage["A"] > BATCH_SIZE
    /\ 1 \in settled["A"]
    /\ ~(1 \in fetched)

\* C6: a failed attempt that is followed by a retry leaves the failure counter
\* alone; the task that fails its last attempt resolves with no record and
\* adds exactly 1 to the failure counter
C6_ExhaustedCountsOnce ==
    [][\A r \in Runs : \A p \in DOMAIN tasks[r] :
          (tasks[r][p].st \in InFlightStates /\ p \in DOMAIN tasks'[r]) =>
              /\ (tasks[r][p].st # "backoff" /\ tasks'[r][p].st = "backoff") =>
                     failureCount'[r] = failureCount[r]
              /\ tasks'[r][p].outcome = "exhausted" =>
                     /\ tasks'[r][p].properties = <<>>
                     /\ failureCount'[r] = failureCount[r] + 1
                     /\ completedPages'[r] = completedPages[r] + 1]_vars

\* the only settled task of the scrape failed all its attempts, and the
\* failure counter is 1
C6_Witness ==
    \E p \in DOMAIN tasks["A"] :
        /\ tasks["A"][p].outcome = "exhausted"
        /\ failureCount["A"] = 1
        /\ completedPages["A"] = 1

\* C7: the retry counter of a task stays within 0..3 and the task issues at
\* most 4 requests, one more than its retry counter
C7_RetriesBounded ==
    \A o \in Owners : \A p \in DOMAIN tasks[o] :
        /\ tasks[o][p].retryCount \in 0..3
        /\ tasks[o][p].attempts <= 4
        /\ tasks[o][p].st \in (InFlightStates \ {"delay"}) =>
               tasks[o][p].attempts = tasks[o][p].retryCount + 1

\* a task has issued its fourth request
C7_Witness ==
    \E p \in DOMAIN tasks["A"] :
        /\ tasks["A"][p].attempts = 4
        /\ tasks["A"][p].st = "fetching"

\* C8: when a task returns from a successful fetch, the file of its page
\* holds the content it fetched, also when that content has no record; a
\* step in which an attempt fails leaves the files as they are
C8_CheckpointBeforeReturn ==
    [][\A o \in Owners : \A p \in DOMAIN tasks[o] :
          (tasks[o][p].st \in InFlightStates /\ p \in DOMAIN tasks'[o]) =>
              /\ tasks'[o][p].outcome = "success" =>
                     /\ FileName(p) \in DOMAIN files'
                     /\ files'[FileName(p)] = tasks[o][p].data
                     /\ tasks[o][p].data \in RemoteDocs(p)
              /\ (\/ tasks[o][p].st # "backoff" /\ tasks'[o][p].st = "backoff"
                  \/ tasks'[o][p].outcome = "exhausted") =>
                     files' = files]_vars

\* a task returned from a successful fetch that found no record, and the
\* file of its page holds what it fetched
C8_Witness ==
    \E p \in DOMAIN tasks["A"] :
        /\ tasks["A"][p].outcome = "success"
        /\ tasks["A"][p].properties = <<>>
        /\ FileName(p) \in DOMAIN files
        /\ files[FileName(p)] = DocEmpty

(***************************************************************************)
(* Properties of the checkpoint directory under interleaved requests.      *)
(***************************************************************************)
\* C9: no step removes a file of pages/, and pages/ holds one file for each
\* page number fetchPage has stored, however often it stored it
C9_CheckpointsOnlyGrow ==
    [][/\ DOMAIN files \subseteq DOMAIN files'
       /\ DOMAIN files' = {FileName(p) : p \in fetched'}
       /\ Cardinality(DOMAIN files') = Cardinality(fetched')]_vars

\* the page that /fetch-page stored had been stored by the range scrape
\* too, and pages/ holds a single file
C9_Witness ==
    /\ \E p \in DOMAIN tasks["A"] \cap DOMAIN tasks[FP] :
           /\ tasks["A"][p].outcome = "success"
           /\ tasks[FP][p].outcome = "success"
    /\ Cardinality(DOMAIN files) = 1
    /\ cpc = "Idle"

\* C10: a status request that arrives when k distinct page numbers are stored
\* answers completedPages = k, remaining = TOTAL_PAGES - k and a progress
\* that is 100 * k / TOTAL_PAGES rounded to the nearest integer
C10_StatusReportsStored ==
    [][statusResp'.answers # statusResp.answers =>
          LET k == Cardinality(fetched)
              body == statusResp'.body
              diff == 100 * k - TOTAL_PAGES * body.progress
          IN  /\ body.totalPages = TOTAL_PAGES
              /\ body.completedPages = k
              /\ body.remaining = TOTAL_PAGES - k
              /\ 2 * diff <= TOTAL_PAGES
              /\ -2 * diff <= TOTAL_PAGES]_vars

\* a status request was answered with two pages stored
C10_Witness ==
    /\ statusResp.answers > 0
    /\ statusResp.body.completedPages = 2
    /\ Cardinality(fetched) = 2

(***************************************************************************)
(* Range scrape against /combine-pages.                                    *)
(***************************************************************************)
\* how often x occurs in the sequence s
Count(s, x) == Cardinality({i \in 1..Len(s) : s[i] = x})
\* the two sequences hold the same elements the same number of times
SameBag(s, u) ==
    /\ Len(s) = Len(u)
    /\ \A i \in 1..Len(s) : Count(s, s[i]) = Count(u, s[i])

RECURSIVE StoredRows(_, _)
\* the records of the rows the listing served for pages from..to, as stored
StoredRows(from, to) ==
    IF from > to THEN <<>>
    ELSE parsePropertyData(files[FileName(from)]) \o StoredRows(from + 1, to)

\* the server has answered one range scrape that stored every page of its
\* range, and then one /combine-pages that listed those pages; nothing else
ScrapedThenCombined(r) ==
    /\ requests = 2
    /\ tasks[FP] = NoTasks
    /\ pc[r] = "Done" /\ resp[r].sent /\ resp[r].success
    /\ startPage[r] <= endPage[r]
    /\ Range(r) \subseteq fetched
    /\ cpc = "Idle" /\ resp[CB].sent /\ resp[CB].success
    /\ cfiles.pageFiles = {FileName(p) : p \in Range(r)}

\* C11: after a range scrape from an empty pages/ that stored every page of
\* its range, and a /combine-pages after it, the records the scrape returned,
\* the records the combination produced and the qualifying rows of the pages
\* of the range are the same multiset, whatever the order the tasks resolved
\* in and the order the files were listed in
C11_ScrapeEqualsCombine ==
    ScrapedThenCombined("A") =>
        /\ SameBag(allProperties["A"], cacc)
        /\ SameBag(allProperties["A"], StoredRows(startPage["A"], endPage["A"]))
        /\ resp["A"].totalProperties = resp[CB].totalProperties

\* both pages of the range had a row, and the combination read the second
\* page's file first
C11_Witness ==
    /\ ScrapedThenCombined("A")
    /\ Len(allProperties["A"]) = 2
    /\ cacc # allProperties["A"]

(***************************************************************************)
(* The order of the aggregate.                                             *)
(***************************************************************************)
\* the page a record of the listing belongs to: its property id carries it
PageOfRecord(rec) == CHOOSE p \in 1..MaxPage : toString(p) = rec.pid
\* in the sequence s every record of page p comes before every record of q
RecordsPrecede(s, p, q) ==
    \A i, j \in 1..Len(s) :
        (PageOfRecord(s[i]) = p /\ PageOfRecord(s[j]) = q) => i < j

C13_InvertedRangeRejected ==
    \A r \in Runs :
        (resp[r].sent /\ startPage[r] > endPage[r]) =>
            /\ ~resp[r].success
            /\ dispatched[r] = <<>>

\* C14 as claimed: a page task of a range scrape whose checkpoint cannot be
\* written (mkdir or writeFile fails) ends in a fault: it neither goes on to
\* a retry nor resolves with an empty result
C14_CheckpointFaultPropagates ==
    [][\A r \in Runs : \A p \in DOMAIN tasks[r] :
          (/\ tasks[r][p].st \in {"mkdir", "writing"}
           /\ p \in DOMAIN tasks'[r]
           /\ tasks'[r][p].st \notin {"mkdir", "writing"}
           /\ tasks'[r][p].outcome # "success") =>
              tasks'[r][p].st = "rejected"]_vars

(***************************************************************************)
(* The extractor.                                                          *)
(***************************************************************************)
\* the rows of a document that have at least 9 cells and a first cell that,
\* trimmed, consists of decimal digits only
NineCellNumericRows(html) ==
    {i \in 1..Len(html) : Len(html[i]) >= 9 /\ IsNumeric(Trim(html[i][1].text))}

\* C15 as claimed: the extractor emits one record for each row that has at
\* least 9 cells and a numeric first cell, and none for any other row
C15_RecordIffNineCells ==
    \A p \in DOMAIN tasks[FP] :
        tasks[FP][p].st \in {"mkdir", "writing"} =>
            Len(tasks[FP][p].properties) =
                Cardinality(NineCellNumericRows(tasks[FP][p].data))

(***************************************************************************)
(* The failure tally and the adaptation.                                   *)
(***************************************************************************)
\* the pages of run r whose task gave up: in a single scrape from an empty
\* pages/ they are the settled pages that were never stored
ExhaustedPages(r) == settled[r] \ fetched

\* C16 as claimed: when scrapeAllPages has returned, the failure counter its
\* summary is computed from counts every page of the run that exhausted its
\* retries
C16_TallyCountsExhausted ==
    \A r \in Runs :
        Returned(r) => failureCount[r] >= Cardinality(ExhaustedPages(r))

(***************************************************************************)
(* Range scrapes over pages that are already stored.                       *)
(***************************************************************************)
\* C17: a batch gets a task for each of its pages whatever pages/ holds, and
\* a task resolves only after it has issued a request, with the records of
\* the response it received
C17_AlwaysRefetches ==
    [][\A r \in Runs :
          /\ (pc[r] # "Waiting" /\ pc'[r] = "Waiting") =>
                 DOMAIN tasks'[r] =
                     batchStart'[r]..BatchEnd(batchStart'[r], endPage'[r])
          /\ \A p \in DOMAIN tasks[r] :
                 (/\ tasks[r][p].st \in InFlightStates
                  /\ p \in DOMAIN tasks'[r]
                  /\ tasks'[r][p].st = "settled") =>
                     /\ tasks[r][p].attempts >= 1
                     /\ tasks'[r][p].outcome = "success" =>
                            /\ tasks[r][p].data \in RemoteDocs(p)
                            /\ tasks'[r][p].properties =
                                   parsePropertyData(tasks[r][p].data)]_vars

\* the third request is a range scrape; the second, a status request, had
\* counted the one file pages/ holds, and the scrape has issued a request
\* for that very page
C17_Witness ==
    /\ requests = 3
    /\ statusResp.answers = 2
    /\ statusResp.body.completedPages = 1
    /\ \E p \in DOMAIN tasks["A"] :
           /\ DOMAIN files = {FileName(p)}
           /\ tasks["A"][p].st = "fetching"
           /\ tasks["A"][p].attempts >= 1

(***************************************************************************)
(* The adaptation and the counters.                                        *)
(***************************************************************************)
\* the loop of scrapeAllPages goes from a finished batch to the next one
NextBatchStarts(r) == pc[r] = "Pausing" /\ pc'[r] = "Waiting"
\* a task of run r resolves in this step
Settles(r, p) ==
    /\ p \in DOMAIN tasks[r] /\ tasks[r][p].st \in InFlightStates
    /\ p \in DOMAIN tasks'[r] /\ tasks'[r][p].st = "settled"

C20_CountersSerial ==
    [][\A r \in Runs :
          /\ completedPages[r] = Cardinality(settled[r])
          /\ completedPages'[r] = Cardinality(settled'[r])
          /\ (pc[r] = "Waiting" /\ pc'[r] = "Waiting") =>
                 LET now == {p \in DOMAIN tasks[r] : Settles(r, p)}
                 IN  /\ Cardinality(now) <= 1
                     /\ completedPages'[r] = completedPages[r] + Cardinality(now)
                     /\ settled'[r] = settled[r] \cup now
                     /\ failureCount'[r] = failureCount[r] +
                            Cardinality({p \in now : tasks'[r][p].properties = <<>>})
          /\ (Returned(r) /\ startPage[r] <= endPage[r]) =>
                 completedPages[r] = endPage[r] - startPage[r] + 1]_vars

\* two tasks have settled while a third is in flight, one of the two without
\* a record: the counters read 2 and 1
C20_Witness ==
    /\ completedPages["A"] = 2
    /\ failureCount["A"] = 1
    /\ Cardinality({p \in DOMAIN tasks["A"] : tasks["A"][p].st = "settled"}) = 2
    /\ InFlight("A") # {}

\* C21: within one range scrape the tasks in flight are tasks dispatched by
\* it, the pages of the dispatched tasks are pairwise distinct, and they map
\* to pairwise distinct checkpoint file names: no two tasks in flight write
\* the same file
C21_DistinctCheckpointKeys ==
    \A r \in Runs :
        /\ InFlight(r) \subseteq DispatchedSet(r)
        /\ \A i, j \in 1..Len(dispatched[r]) :
               i # j => /\ dispatched[r][i] # dispatched[r][j]
                        /\ FileName(dispatched[r][i]) # FileName(dispatched[r][j])
        /\ \A p, q \in InFlight(r) : p # q => FileName(p) # FileName(q)

\* two tasks of one batch are writing their files at the same time
C21_Witness ==
    \E p, q \in InFlight("A") :
        /\ p # q
        /\ tasks["A"][p].st = "writing"
        /\ tasks["A"][q].st = "writing"
        /\ BatchOf("A", p) = BatchOf("A", q)

\* C22: a task waiting for its retry number k+1 (k = 0, 1, 2 retries made so
\* far) waits 2000, 4000 or 8000 ms, which is min(2000 * 2^k, 10000); no
\* backoff timer exceeds 10000 ms, and no timer is pending in a task that is
\* not waiting for a retry
C22_BackoffSchedule ==
    \A o \in Owners : \A p \in DOMAIN tasks[o] :
        LET t == tasks[o][p]
        IN  IF t.st = "backoff"
            THEN /\ t.retryCount \in 0..2
                 /\ t.timer = <<2000, 4000, 8000>>[t.retryCount + 1]
                 /\ t.timer <= 10000
            ELSE t.timer = 0

\* a task waits 8000 ms for its third retry
C22_Witness ==
    \E p \in DOMAIN tasks["A"] :
        /\ tasks["A"][p].st = "backoff"
        /\ tasks["A"][p].retryCount = 2
        /\ tasks["A"][p].attempts = 3
        /\ tasks["A"][p].timer = 8000

\* the errors of an attempt that the request itself raised: a status of 400
\* or more, a timeout, a transport error
TransientErrors == {"rejected", "timeout", "transport"}

\* C23: an attempt that ends with a status of 400 or more, a timeout or a
\* transport error writes no checkpoint and, when fewer than 3 retries were
\* made, leaves the task waiting for its retry; an attempt that ends while
\* fewer than 3 retries were made never settles the task without a
\* checkpoint, the attempt after the third retry settles it with no record
\* when it fails, and no task is ever left rejected; only the body of a
\* status-200 response goes on to be stored
C23_TransientErrors ==
    [][\A o \in Owners : \A p \in DOMAIN tasks[o] \cap DOMAIN tasks'[o] :
          LET t == tasks[o][p]
              u == tasks'[o][p]
          IN  /\ u.st # "rejected"
              /\ (t.st # "backoff" /\ u.st = "backoff" /\ u.error \in TransientErrors) =>
                     /\ t.st = "fetching"
                     /\ files' = files /\ fetched' = fetched /\ dirExists' = dirExists
                     /\ t.retryCount < 3 /\ u.retryCount = t.retryCount
                     /\ u.timer > 0
              /\ (t.st = "fetching" /\ u # t) =>
                     \/ u.st = "mkdir" /\ u.data \in RemoteDocs(p)
                     \/ /\ files' = files /\ fetched' = fetched
                        /\ IF t.retryCount < 3
                           THEN u.st = "backoff" /\ u.error \in TransientErrors \cup {"status"}
                           ELSE u.st = "settled" /\ u.outcome = "exhausted"
                                /\ u.properties = <<>>]_vars

\* the second attempt for a page timed out: the task waits for its second
\* retry and the page has no checkpoint
C23_Witness ==
    \E p \in DOMAIN tasks["A"] :
        /\ tasks["A"][p].st = "backoff"
        /\ tasks["A"][p].error = "timeout"
        /\ tasks["A"][p].retryCount = 1
        /\ FileName(p) \notin DOMAIN files

\* C24: a step of a status request or of a combine request leaves the
\* checkpoint store as it is, and leaves the counters, the concurrency, the
\* tasks and the position of every range scrape as they are; the count a
\* status request answers is the number of page files stored at that
\* moment, whatever the counters of a scrape in flight are
C24_ReadOnlyRequests ==
    [][LET statusStep == statusResp'.answers # statusResp.answers
           combineStep == \/ cpc' # cpc \/ cfiles' # cfiles \/ cacc' # cacc
                          \/ resp'[CB] # resp[CB]
       IN  /\ (statusStep \/ combineStep) =>
                  /\ UNCHANGED <<dirExists, files, fetched>>
                  /\ UNCHANGED <<failureCount, completedPages, settled>>
                  /\ UNCHANGED <<currentConcurrency, batchStart, allProperties>>
                  /\ UNCHANGED <<pc, tasks, batchQueue>>
           /\ statusStep =>
                  LET stored == Cardinality({f \in DOMAIN files : IsPageFile(f)})
                  IN  /\ statusResp'.body.completedPages = stored
                      /\ statusResp'.body.remaining = TOTAL_PAGES - stored]_vars

\* while a range scrape has a task in flight and has counted one page, a
\* combine request is reading the files and a status request, the last
\* request so far, has been answered from the one file stored
C24_Witness ==
    /\ pc["A"] = "Waiting"
    /\ InFlight("A") # {}
    /\ completedPages["A"] = 1
    /\ cpc = "Reading"
    /\ requests = 3
    /\ statusResp.answers = 3
    /\ statusResp.body.completedPages = 1

\* C25: in every reachable state the failure counter of a range scrape is at
\* least 0 and at most its completed-page counter
C25_FailuresWithinCompleted ==
    \A r \in Runs :
        /\ 0 <= failureCount[r]
        /\ failureCount[r] <= completedPages[r]

\* every page completed so far has failed, and more than one has
C25_Witness ==
    /\ pc["A"] = "Waiting"
    /\ failureCount["A"] = 2
    /\ completedPages["A"] = 2

\* C26 as claimed: a task that settles after its page was fetched and stored
\* leaves the failure counter as it is; a step that raises the failure
\* counter settles a task whose every attempt failed
C26_StoredPageNotCounted ==
    [][\A r \in Runs :
          /\ \A p \in DOMAIN tasks[r] :
                 (Settles(r, p) /\ tasks'[r][p].outcome = "success") =>
                     failureCount'[r] = failureCount[r]
          /\ failureCount'[r] > failureCount[r] =>
                 \E p \in DOMAIN tasks[r] :
                     Settles(r, p) /\ tasks'[r][p].outcome = "exhausted"]_vars

\* C27 as claimed: whatever range scrapes came before, a status request
\* answers a progress between 0 and 100 and a remaining count between 0 and
\* the total page count
C27_StatusWithinRange ==
    statusResp.answers > 0 =>
        /\ statusResp.body.progress \in 0..100
        /\ statusResp.body.remaining \in 0..TOTAL_PAGES

\* every element of s is in u at least as many times as in s
SubBag(s, u) == \A i \in 1..Len(s) : Count(s, s[i]) <= Count(u, s[i])

\* the server has answered one range scrape and one /combine-pages that
\* listed the store as it is now, and at most one /fetch-page, of a page
\* outside the range: no file was written twice, none after it was listed
ScrapedThenCombinedAll(r) ==
    /\ pc[r] = "Done" /\ resp[r].sent /\ resp[r].success
    /\ cpc = "Idle" /\ resp[CB].sent /\ resp[CB].success
    /\ cfiles.pageFiles = {f \in DOMAIN files : IsPageFile(f)}
    /\ InFlight(FP) = {}
    /\ DOMAIN tasks[FP] \cap Range(r) = {}
    /\ requests = 2 + Cardinality(DOMAIN tasks[FP])

\* C28: once a range scrape has returned, every page that has a record in
\* its aggregate has a checkpoint file; and when the scrape is followed by a
\* combination of the store, no file having been rewritten, the records of
\* the aggregate are a sub-multiset of the records of the combination
C28_AggregateWithinCombine ==
    /\ \A r \in Runs :
           Returned(r) =>
               \A i \in 1..Len(allProperties[r]) :
                   FileName(PageOfRecord(allProperties[r][i])) \in DOMAIN files
    /\ ScrapedThenCombinedAll("A") => SubBag(allProperties["A"], cacc)

\* the scrape returned the record of its one page, and the combination after
\* it also holds the record of a page stored by a /fetch-page request
C28_Witness ==
    /\ ScrapedThenCombinedAll("A")
    /\ Len(allProperties["A"]) = 1
    /\ Len(cacc) = 2
    /\ tasks[FP] # NoTasks

\* C29: a step of one range scrape (one that moves its tasks or its position)
\* leaves the counters, the concurrency, the tasks, the queue and the
\* aggregate of every other range scrape as they are; the concurrency of a
\* running scrape goes down, and its failure counter back, only when its own
\* failure counter exceeded the threshold; and every record of a scrape's
\* aggregate is a record of a page of its own range
C29_ScrapesIndependent ==
    [][\A r \in Runs :
          /\ (tasks'[r] # tasks[r] \/ pc'[r] # pc[r]) =>
                 \A q \in Runs \ {r} :
                     /\ failureCount'[q] = failureCount[q]
                     /\ completedPages'[q] = completedPages[q]
                     /\ currentConcurrency'[q] = currentConcurrency[q]
                     /\ settled'[q] = settled[q]
                     /\ allProperties'[q] = allProperties[q]
                     /\ batchStart'[q] = batchStart[q]
                     /\ tasks'[q] = tasks[q]
                     /\ batchQueue'[q] = batchQueue[q]
                     /\ pc'[q] = pc[q]
          /\ (/\ pc[r] # "Idle"
              /\ \/ currentConcurrency'[r] < currentConcurrency[r]
                 \/ failureCount'[r] < failureCount[r]) =>
                 failureCount[r] > FailureThreshold
          /\ \A i \in 1..Len(allProperties'[r]) :
                 PageOfRecord(allProperties'[r][i]) \in startPage'[r]..endPage'[r]]_vars

\* scrape A has adapted after a first batch with two failed pages and runs
\* its second batch with its failure counter back at 0, holding records of
\* pages outside the range of B, while scrape B has completed its one page
\* and counted it failed
C29_Witness ==
    /\ pc["A"] = "Waiting" /\ pc["B"] = "Waiting"
    /\ batchStart["A"] = 1 + BATCH_SIZE
    /\ completedPages["A"] = BATCH_SIZE /\ failureCount["A"] = 0
    /\ Len(allProperties["A"]) = BATCH_SIZE - 2
    /\ completedPages["B"] = 1 /\ failureCount["B"] = 1
    /\ currentConcurrency["B"] = CONCURRENT_REQUESTS

\* C30: an attempt answered with a status below 400 other than 200 writes no
\* checkpoint and leaves the task waiting for its retry, as fewer than 3
\* retries were made; an attempt goes on to store only the body of a
\* status-200 response, and every write to the checkpoint store stores such
\* a body under the name of its page
C30_OnlyStatus200Stored ==
    [][/\ \A o \in Owners : \A p \in DOMAIN tasks[o] \cap DOMAIN tasks'[o] :
              LET t == tasks[o][p]
                  u == tasks'[o][p]
              IN  /\ (t.st # "backoff" /\ u.st = "backoff" /\ u.error = "status") =>
                         /\ t.st = "fetching"
                         /\ files' = files /\ fetched' = fetched
                         /\ t.retryCount < 3 /\ u.retryCount = t.retryCount
                         /\ u.timer > 0
                  /\ (t.st = "fetching" /\ u.st = "mkdir") => u.data \in RemoteDocs(p)
       /\ files' # files =>
              \E o \in Owners : \E p \in DOMAIN tasks[o] :
                  /\ tasks[o][p].st = "writing"
                  /\ tasks[o][p].data \in RemoteDocs(p)
                  /\ files' = (FileName(p) :> tasks[o][p].data) @@ files]_vars

\* the first attempt for a page was answered with a status below 400 that
\* is not 200: the task waits for its first retry and the page has no
\* checkpoint
C30_Witness ==
    \E p \in DOMAIN tasks["A"] :
        /\ tasks["A"][p].st = "backoff"
        /\ tasks["A"][p].error = "status"
        /\ tasks["A"][p].retryCount = 0
        /\ FileName(p) \notin DOMAIN files

\* C31: while pages/ does not exist, a status request is answered with 0
\* completed pages, progress 0 and the total page count remaining, and a
\* combine request is answered with success false, reads nothing and writes
\* no artifact
C31_WithoutDirectory ==
    [][~dirExists =>
          LET statusStep == statusResp'.answers # statusResp.answers
              combineStep == /\ requests' # requests
                             /\ statusResp' = statusResp
                             /\ pc' = pc /\ tasks' = tasks
          IN  /\ statusStep =>
                     statusResp'.body = [sent |-> TRUE, totalPages |-> TOTAL_PAGES,
                                         completedPages |-> 0, progress |-> 0,
                                         remaining |-> TOTAL_PAGES]
              /\ combineStep =>
                     /\ resp'[CB] = [sent |-> TRUE, success |-> FALSE]
                     /\ cpc' = "Idle"
                     /\ cacc' = <<>>
                     /\ artifacts' = artifacts
                     /\ UNCHANGED <<dirExists, files>>]_vars

\* with pages/ still missing, a status request was answered with 0 pages
\* and a combine request with a failure, and no artifact exists
C31_Witness ==
    /\ ~dirExists
    /\ statusResp.answers > 0
    /\ statusResp.body.completedPages = 0
    /\ statusResp.body.remaining = TOTAL_PAGES
    /\ resp[CB] = [sent |-> TRUE, success |-> FALSE]
    /\ cpc = "Idle"
    /\ artifacts = 0
    /\ requests = 2

====
